---- MODULE Spec2Model ----
(***************************************************************************)
(* LoanForecaster: the amortization engine (loan_calculator.py) and the    *)
(* payment reconciler (utils.py).                                          *)
(*                                                                         *)
(* Python floats are IEEE-754 binary64: every +, -, *, / returns the exact *)
(* result rounded to the nearest representable value (ties to even).  The  *)
(* model keeps that discipline with a significand of Prec bits instead of  *)
(* 53: a float is [m, e] with value m * 2^e, m = 0 or 2^(Prec-1) <= |m| <  *)
(* 2^Prec.  Exponent range is not modelled (no overflow, no subnormals).   *)
(***************************************************************************)
EXTENDS Integers, Sequences, FiniteSets, TLC

\* ---------------------------------------------------------------- bounds
Prec == 12              \* significand bits of the modelled float
MaxLoanSteps == 2       \* loan_amount ranges over 0, 0.006 and 1 + 6k, k <= MaxLoanSteps
MaxRateSteps == 1       \* annual_rate ranges over 24k, k <= MaxRateSteps
MaxTenureYears == 1     \* tenure_years ranges over 1..MaxTenureYears
MaxMonthly == 1         \* monthly_prepayment ranges over 0..MaxMonthly
MaxQuarterlySteps == 1  \* quarterly_prepayment ranges over 50k, k <= MaxQuarterlySteps
MaxSmallQuarterly == 1   \* small quarterly prepayments range over 0..MaxSmallQuarterly
MinHorizon == 2         \* a max_months shorter than the tenure
ExtraMonths == 1        \* a max_months longer than the tenure by this much
MaxRows == 2            \* an uploaded payment history has up to MaxRows rows
MaxMonth == 2           \* months range over 1..MaxMonth (0..MaxMonth in raw tables)
MaxAmountSteps == 1     \* its amount_paid column ranges over -1 and (1 + 3k)/10, k <= MaxAmountSteps
MaxLumpSteps == 1       \* a lump-sum payment ranges over 2k, 1 <= k <= MaxLumpSteps
MaxPeriods == 64        \* periods of a payoff are counted up to MaxPeriods
MaxBalanceSteps == 2    \* balances handed to the recommendations range over -1, 0, 1 and 50k - 1, k <= MaxBalanceSteps
MaxMonthsCompleted == 6 \* months_completed ranges over 0, 1 and MaxMonthsCompleted

\* ------------------------------------------------------ float arithmetic
Abs(n) == IF n < 0 THEN -n ELSE n
Sgn(n) == IF n < 0 THEN -1 ELSE IF n > 0 THEN 1 ELSE 0
Pow2(k) == 2^k

Zero == [m |-> 0, e |-> 0]

\* the number of bits of n >= 0
BitLen(n) == CHOOSE k \in 0..31 : n < Pow2(k) /\ (k = 0 \/ n >= Pow2(k - 1))

\* canonical form of n * 2^e with a p-bit significand, for |n| <= 2^p
NormP(n, e, p) ==
    IF n = 0 THEN Zero
    ELSE LET up == p - BitLen(Abs(n))
         IN  IF up < 0 THEN [m |-> n \div 2, e |-> e + 1]
             ELSE [m |-> n * Pow2(up), e |-> e - up]

\* n * 2^e rounded to p significant bits, ties to even
RoundP(n, e, p) ==
    LET a == Abs(n)
        k == BitLen(a) - p
    IN  IF k <= 0 THEN NormP(n, e, p)
        ELSE LET q == a \div Pow2(k)
                 r == a % Pow2(k)
                 half == Pow2(k - 1)
                 up == r > half \/ (r = half /\ q % 2 = 1)
             IN  NormP(Sgn(n) * (IF up THEN q + 1 ELSE q), e + k, p)

\* n * 2^e as a float
Round(n, e) == RoundP(n, e, Prec)

\* the least j with n * 2^j >= bound, for n > 0
ScaleUp(n, bound) ==
    CHOOSE j \in 0..31 : n * Pow2(j) >= bound /\ (j = 0 \/ n * Pow2(j - 1) < bound)

\* the float nearest to the rational n / d (d > 0): quotient with guard and
\* sticky bits, then one rounding
FromRat(n, d) ==
    IF n = 0 THEN Zero
    ELSE LET a == Abs(n)
             j == ScaleUp(a, d * Pow2(Prec + 1))
             s == a * Pow2(j)
             q == s \div d
             sticky == IF s % d = 0 THEN 0 ELSE 1
         IN  Round(Sgn(n) * (2 * q + sticky), -(j + 1))

FromInt(n) == Round(n, 0)
One == FromInt(1)

Neg(a) == [m |-> -a.m, e |-> a.e]

Add(a, b) ==
    IF a.m = 0 THEN b
    ELSE IF b.m = 0 THEN a
    ELSE IF a.e - b.e >= Prec + 2 THEN a
    ELSE IF b.e - a.e >= Prec + 2 THEN b
    ELSE IF a.e >= b.e THEN Round(a.m * Pow2(a.e - b.e) + b.m, b.e)
    ELSE Round(b.m * Pow2(b.e - a.e) + a.m, a.e)

Sub(a, b) == Add(a, Neg(b))

Mul(a, b) == Round(a.m * b.m, a.e + b.e)

\* b # 0
Div(a, b) ==
    LET r == FromRat(a.m * Sgn(b.m), Abs(b.m))
    IN  IF r.m = 0 THEN Zero ELSE [m |-> r.m, e |-> r.e + a.e - b.e]

Less(a, b) ==
    IF Sgn(a.m) # Sgn(b.m) THEN Sgn(a.m) < Sgn(b.m)
    ELSE IF a.m > 0 THEN a.e < b.e \/ (a.e = b.e /\ a.m < b.m)
    ELSE IF a.m < 0 THEN a.e > b.e \/ (a.e = b.e /\ a.m < b.m)
    ELSE FALSE

Leq(a, b) == ~Less(b, a)

\* max(0, x) and min(a, b) of Python
Max0(x) == IF Less(Zero, x) THEN x ELSE Zero
Min(a, b) == IF Less(b, a) THEN b ELSE a

\* a float that is not a number: the nan or inf numpy gives for a division by 0
NaN == [m |-> 0, e |-> 1]

\* ceil(x) as an integer
Ceil(x) ==
    IF x.m = 0 THEN 0
    ELSE IF x.e >= 0 THEN x.m * Pow2(x.e)
    ELSE IF -x.e >= Prec THEN (IF x.m > 0 THEN 1 ELSE 0)
    ELSE -((-x.m) \div Pow2(-x.e))

\* the significand bits pow works with internally
PowPrec == IF Prec + 3 <= 15 THEN Prec + 3 ELSE 15

RECURSIVE PowP(_, _, _)
\* x ** n for an integer n >= 0 by squaring, on p-bit significands
PowP(x, n, p) ==
    IF n = 0 THEN NormP(1, 0, p)
    ELSE IF n % 2 = 0
         THEN LET h == PowP(x, n \div 2, p) IN RoundP(h.m * h.m, h.e + h.e, p)
         ELSE LET h == PowP(x, n - 1, p) IN RoundP(h.m * x.m, h.e + x.e, p)

\* x ** n as a float: computed with guard bits, then rounded once
Pow(x, n) == LET w == PowP(x, n, PowPrec) IN Round(w.m, w.e)

\* n / d for n >= 0, d > 0 rounded to the nearest integer, ties to even
RoundHalfEven(n, d) ==
    LET q == n \div d
        r == n % d
    IN  IF 2 * r > d \/ (2 * r = d /\ q % 2 = 1) THEN q + 1 ELSE q

\* round(x, 2): the nearest hundredth of x (ties to even), as a float
Round2(x) ==
    IF x.e >= 0 THEN x
    ELSE IF -x.e >= Prec + 8 THEN Zero
    ELSE FromRat(Sgn(x.m) * RoundHalfEven(Abs(x.m) * 100, Pow2(-x.e)), 100)

\* --------------------------------------------------------- LoanCalculator
None == -1

MaxAnnualRate == 50

\* the loan divided by its years instead of its months
_calculate_emi_per_year(loan_amount, monthly_rate, tenure_months) ==
    Div(loan_amount, FromInt(tenure_months \div 12))

\* LoanCalculator._calculate_emi
_calculate_emi(loan_amount, monthly_rate, tenure_months) ==
    IF monthly_rate = Zero
    THEN Div(loan_amount, FromInt(tenure_months))
    ELSE LET pw == Pow(Add(One, monthly_rate), tenure_months)
             numerator == Mul(Mul(loan_amount, monthly_rate), pw)
             denominator == Sub(pw, One)
         IN  Div(numerator, denominator)

\* LoanCalculator.__init__
LoanCalculator(loan_amount, annual_rate, tenure_years) ==
    LET monthly_rate == Div(Div(annual_rate, FromInt(100)), FromInt(12))
        tenure_months == tenure_years * 12
    IN  [loan_amount |-> loan_amount,
         annual_rate |-> annual_rate,
         tenure_years |-> tenure_years,
         monthly_rate |-> monthly_rate,
         tenure_months |-> tenure_months,
         emi |-> _calculate_emi(loan_amount, monthly_rate, tenure_months)]

\* LoanCalculator.validate_inputs
validate_inputs(c) ==
    (IF Leq(c.loan_amount, Zero)
        THEN <<"Loan amount must be greater than zero">> ELSE <<>>)
    \o (IF Less(c.annual_rate, Zero) \/ Less(FromInt(MaxAnnualRate), c.annual_rate)
        THEN <<"Annual interest rate must be between 0% and 50%">> ELSE <<>>)
    \o (IF c.tenure_years <= 0 \/ c.tenure_years > 50
        THEN <<"Loan tenure must be between 1 and 50 years">> ELSE <<>>)

\* the loan amounts and rates the sidebar of the app offers: whole, positive
SidebarLoanAmounts == {FromInt(1 + 6 * k) : k \in 0..MaxLoanSteps}
SidebarRates == {FromInt(r) : r \in {q \in {24 * k : k \in 1..MaxRateSteps} : q <= MaxAnnualRate}}

\* the values the callers pass
LoanAmounts == {Zero, FromRat(6, 1000)} \cup SidebarLoanAmounts
AnnualRates == {FromInt(r) : r \in {q \in {24 * k : k \in 0..MaxRateSteps} : q <= MaxAnnualRate}}
TenureYears == 1..MaxTenureYears
MonthlyPrepayments == {FromInt(k) : k \in 0..MaxMonthly}
QuarterlyPrepayments == {FromInt(50 * k) : k \in 0..MaxQuarterlySteps}
\* quarterly prepayments that a loan of the sidebar can absorb whole
SmallQuarterlyPrepayments == {FromInt(k) : k \in 0..MaxSmallQuarterly}
Horizons(c) == {None, 0, MinHorizon, c.tenure_months, c.tenure_months + ExtraMonths}

\* the uploaded payment histories: tables with the columns month and amount_paid
PaymentAmounts == {Neg(One)} \cup {FromRat(1 + 3 * k, 10) : k \in 0..MaxAmountSteps}
PaymentRows == [month : 1..MaxMonth, amount_paid : PaymentAmounts]
PaymentFrames == UNION {[1..n -> PaymentRows] : n \in 0..MaxRows}

\* histories with payments above the emi and lump sums above a small loan
LumpSums == {FromInt(2 * k) : k \in 1..MaxLumpSteps}
LumpSumRows == [month : 1..MaxMonth, amount_paid : {FromRat(1, 10)} \cup LumpSums]
LumpSumTables == UNION {[1..n -> LumpSumRows] : n \in 0..MaxRows}

\* the columns validate_payment_data requires
RequiredColumns == {"amount_paid", "month"}

\* a DataFrame: its columns and its rows; a row is a record over the columns,
\* and a cell that is missing (NaN) is a field the row does not have
DataFrame(columns, rows) == [columns |-> columns, rows |-> rows]

\* the cells a column can hold: <<v>> for a value, <<>> for a missing one;
\* a column the table does not have holds nothing
MonthCells(columns) ==
    {<<>>} \cup (IF "month" \in columns THEN {<<m>> : m \in 0..MaxMonth} ELSE {})
AmountCells(columns) ==
    {<<>>} \cup (IF "amount_paid" \in columns THEN {<<a>> : a \in PaymentAmounts} ELSE {})

\* the row with these two cells
TableRow(month_cell, amount_cell) ==
    CASE month_cell # <<>> /\ amount_cell # <<>> ->
            [month |-> month_cell[1], amount_paid |-> amount_cell[1]]
      [] month_cell # <<>> /\ amount_cell = <<>> -> [month |-> month_cell[1]]
      [] month_cell = <<>> /\ amount_cell # <<>> -> [amount_paid |-> amount_cell[1]]
      [] OTHER -> [column \in {} |-> Zero]

\* the rows a table with the given columns can have
TableRows(columns) ==
    {TableRow(mc, ac) : mc \in MonthCells(columns), ac \in AmountCells(columns)}

\* the tables handed to validate_payment_data: any of the required columns
\* may be absent, any cell may be missing, a month may be 0
Tables ==
    UNION {{DataFrame(columns, rows) :
                rows \in UNION {[1..n -> TableRows(columns)] : n \in 0..MaxRows}} :
           columns \in SUBSET RequiredColumns}

VARIABLES
    calculator,                  \* the LoanCalculator instance
    pc,                          \* "ready", or "loop" inside generate_amortization_schedule
    arg_max_months,              \* the max_months argument of the running call
    monthly_prepayment, quarterly_prepayment, max_months,
    month, outstanding_balance, schedule,
    opening_balance,             \* outstanding_balance as read at the top of the last iteration
    monthly_interest, monthly_principal,
    current_monthly_prepayment, current_quarterly_prepayment,
    total_prepayment, total_monthly_payment,
    returned,                    \* the last two completed calls on this instance
    payment_analysis,            \* <<>> or <<the last report of analyze_payment_history>>
    payment_data,                \* <<>> or <<the payment history that report was made from>>
    analysis_inputs,             \* <<>> or <<the loan terms that report was made from>>
    messages,                    \* what the last Analyze click showed: st.error / st.success
    last_call,                   \* <<>> or <<name, arguments...>> of the last direct call
    last_result                  \* <<>>, <<"returned", value>> or <<"raised", exception>>

locals == <<arg_max_months, monthly_prepayment, quarterly_prepayment, max_months,
            month, outstanding_balance, schedule, opening_balance,
            monthly_interest, monthly_principal,
            current_monthly_prepayment, current_quarterly_prepayment,
            total_prepayment, total_monthly_payment>>

\* what the Analyze handler keeps in the session
session == <<payment_analysis, payment_data, analysis_inputs>>

\* what is shown or handed back to a caller
outputs == <<messages, last_call, last_result>>

vars == <<calculator, pc, locals, returned, session, outputs>>

\* the locals of a finished call staying in place
NoFrame_kept == UNCHANGED locals

\* no call of generate_amortization_schedule is running: its locals do not exist
NoFrame ==
    /\ arg_max_months' = None
    /\ monthly_prepayment' = Zero
    /\ quarterly_prepayment' = Zero
    /\ max_months' = 0
    /\ month' = 0
    /\ outstanding_balance' = Zero
    /\ schedule' = <<>>
    /\ opening_balance' = Zero
    /\ monthly_interest' = Zero
    /\ monthly_principal' = Zero
    /\ current_monthly_prepayment' = Zero
    /\ current_quarterly_prepayment' = Zero
    /\ total_prepayment' = Zero
    /\ total_monthly_payment' = Zero

Init ==
    /\ \E la \in LoanAmounts, ar \in AnnualRates, ty \in TenureYears :
          calculator = LoanCalculator(la, ar, ty)
    /\ pc = "ready"
    /\ arg_max_months = None
    /\ monthly_prepayment = Zero
    /\ quarterly_prepayment = Zero
    /\ max_months = 0
    /\ month = 0
    /\ outstanding_balance = Zero
    /\ schedule = <<>>
    /\ opening_balance = Zero
    /\ monthly_interest = Zero
    /\ monthly_principal = Zero
    /\ current_monthly_prepayment = Zero
    /\ current_quarterly_prepayment = Zero
    /\ total_prepayment = Zero
    /\ total_monthly_payment = Zero
    /\ returned = <<>>
    /\ payment_analysis = <<>>
    /\ payment_data = <<>>
    /\ analysis_inputs = <<>>
    /\ messages = <<>>
    /\ last_call = <<>>
    /\ last_result = <<>>

\* calculator = LoanCalculator(...): a new instance replaces the old one
Construct(la, ar, ty) ==
    /\ pc = "ready"
    /\ calculator' = LoanCalculator(la, ar, ty)
    /\ returned' = <<>>
    /\ UNCHANGED <<pc, locals, session, outputs>>

\* max_months = max_months or self.tenure_months
EffectiveMaxMonths(mm, tenure_months) ==
    IF mm = None \/ mm = 0 THEN tenure_months ELSE mm

\* generate_amortization_schedule, lines 60-62
Call(mp, qp, mm) ==
    /\ pc = "ready"
    /\ pc' = "loop"
    /\ arg_max_months' = mm
    /\ monthly_prepayment' = mp
    /\ quarterly_prepayment' = qp
    /\ schedule' = <<>>
    /\ outstanding_balance' = calculator.loan_amount
    /\ max_months' = EffectiveMaxMonths(mm, calculator.tenure_months)
    /\ month' = 0
    /\ returned' = IF Len(returned) = 2 THEN <<returned[2]>> ELSE returned
    /\ UNCHANGED <<calculator, opening_balance, monthly_interest, monthly_principal,
                   current_monthly_prepayment, current_quarterly_prepayment,
                   total_prepayment, total_monthly_payment, session, outputs>>

\* one record of the schedule, lines 99-107
PeriodRecord(mo, interest, principal, mprep, qprep, total, balance) ==
    ("Month" :> mo) @@
    ("Interest Paid" :> Round2(interest)) @@
    ("Principal Paid" :> Round2(principal)) @@
    ("Monthly Prepayment" :> Round2(mprep)) @@
    ("Quarterly Prepayment" :> Round2(qprep)) @@
    ("Total Payment" :> Round2(total)) @@
    ("Outstanding Balance" :> Round2(balance))

\* the loop without its two break statements
LoopContinues_nobreak(mo, mx, balance) == mo < mx

\* the loop runs another iteration: range not exhausted and no break
LoopContinues(mo, mx, balance) == mo < mx /\ Less(Zero, balance)

\* the subtraction with its operands exchanged
PrincipalComponent_swapped(emi, interest) == Sub(interest, emi)

\* monthly_principal = self.emi - monthly_interest
PrincipalComponent(emi, interest) == Sub(emi, interest)

\* the principal clamp never taken
PrincipalClamped_never(principal, balance) == FALSE

\* the condition of the principal clamp, line 75
PrincipalClamped(principal, balance) == Less(balance, principal)

\* the quarterly prepayment applied in every month
QuarterlyDue_monthly(mo, qp) == qp

\* the quarterly prepayment of a month, line 81
QuarterlyDue(mo, qp) == IF mo % 3 = 0 THEN qp ELSE Zero

\* the condition of the prepayment clamp, line 86
PrepaymentClamped(total, balance, principal) == Less(Sub(balance, principal), total)

\* the clamp leaving the quarterly prepayment as it was
AppliedQuarterly_kept(clamp, qprep) == qprep

\* the clamp leaving the monthly prepayment as it was
AppliedMonthly_kept(clamp, total, mprep) == mprep

\* the prepayments as recorded after the clamp, lines 88-89
AppliedMonthly(clamp, total, mprep) == IF clamp THEN total ELSE mprep
AppliedQuarterly(clamp, qprep) == IF clamp THEN Zero ELSE qprep

\* the payment added to the balance instead of taken off it
UpdatedBalance_added(balance, principal, total) == Max0(Add(balance, Add(principal, total)))

\* lines 92-93
UpdatedBalance(balance, principal, total) == Max0(Sub(balance, Add(principal, total)))

\* one iteration of the loop, lines 64-111
LoopStep ==
    /\ pc = "loop"
    /\ LoopContinues(month, max_months, outstanding_balance)
    /\ LET interest0 == Mul(outstanding_balance, calculator.monthly_rate)
           principal0 == PrincipalComponent(calculator.emi, interest0)
           pclamp == PrincipalClamped(principal0, outstanding_balance)
           principal == IF pclamp THEN outstanding_balance ELSE principal0
           interest == IF pclamp THEN Sub(calculator.emi, principal) ELSE interest0
           mprep0 == monthly_prepayment
           qprep0 == QuarterlyDue(month + 1, quarterly_prepayment)
           total0 == Add(mprep0, qprep0)
           clamp == PrepaymentClamped(total0, outstanding_balance, principal)
           total == IF clamp THEN Max0(Sub(outstanding_balance, principal)) ELSE total0
           mprep == AppliedMonthly(clamp, total, mprep0)
           qprep == AppliedQuarterly(clamp, qprep0)
           balance == UpdatedBalance(outstanding_balance, principal, total)
           payment == Add(Add(interest, principal), total)
       IN  /\ month' = month + 1
           /\ opening_balance' = outstanding_balance
           /\ monthly_interest' = interest
           /\ monthly_principal' = principal
           /\ current_monthly_prepayment' = mprep
           /\ current_quarterly_prepayment' = qprep
           /\ total_prepayment' = total
           /\ outstanding_balance' = balance
           /\ total_monthly_payment' = payment
           /\ schedule' = Append(schedule,
                PeriodRecord(month + 1, interest, principal, mprep, qprep, payment, balance))
    /\ UNCHANGED <<calculator, pc, arg_max_months, monthly_prepayment,
                   quarterly_prepayment, max_months, returned, session, outputs>>

\* loop exit and return, lines 64-66, 110-113
Return ==
    /\ pc = "loop"
    /\ ~LoopContinues(month, max_months, outstanding_balance)
    /\ pc' = "ready"
    /\ returned' = Append(returned,
          [monthly_prepayment |-> monthly_prepayment,
           quarterly_prepayment |-> quarterly_prepayment,
           max_months |-> arg_max_months,
           schedule |-> schedule])
    /\ NoFrame
    /\ UNCHANGED <<calculator, session, outputs>>

\* ------------------------------------------------- analyze_payment_history
\* a cell that holds a value
Present(row, column) == column \in DOMAIN row

\* f"Missing required columns: {', '.join(missing_columns)}", line 285
MissingColumnsError(missing) ==
    IF missing = {"amount_paid"} THEN "Missing required columns: amount_paid"
    ELSE IF missing = {"month"} THEN "Missing required columns: month"
    ELSE "Missing required columns: amount_paid, month"

\* the per-row checks running whatever the column check found
RowChecksRun_always(errors) == TRUE

\* if len(errors) == 0, line 287
RowChecksRun(errors) == errors = <<>>

\* df['month'].duplicated().any(): two rows with the same month, or both
\* with a missing one
DuplicateMonths(rows) ==
    \E i, j \in DOMAIN rows :
        /\ i # j
        /\ Present(rows[i], "month") = Present(rows[j], "month")
        /\ Present(rows[i], "month") => rows[i].month = rows[j].month

\* validate_payment_data
validate_payment_data(df) ==
    LET missing_columns == RequiredColumns \ df.columns
        errors == IF missing_columns # {}
                  THEN <<MissingColumnsError(missing_columns)>> ELSE <<>>
        rows == df.rows
    IN  IF ~RowChecksRun(errors) THEN errors
        ELSE errors
             \o (IF \E i \in DOMAIN rows : /\ Present(rows[i], "amount_paid")
                                            /\ Less(rows[i].amount_paid, Zero)
                 THEN <<"Payment amounts cannot be negative">> ELSE <<>>)
             \o (IF DuplicateMonths(rows)
                 THEN <<"Duplicate months found in the data">> ELSE <<>>)
             \o (IF \E i \in DOMAIN rows : ~Present(rows[i], "amount_paid")
                 THEN <<"Missing payment amounts found">> ELSE <<>>)
             \o (IF \E i \in DOMAIN rows : ~Present(rows[i], "month")
                 THEN <<"Missing month values found">> ELSE <<>>)

\* a direct call of validate_payment_data
ValidateCall(df) ==
    /\ pc = "ready"
    /\ last_call' = <<"validate_payment_data", df>>
    /\ last_result' = <<"returned", validate_payment_data(df)>>
    /\ UNCHANGED <<calculator, pc, locals, returned, session, messages>>

\* the rows left in the order of the table
sort_values_unsorted(df) == df

RECURSIVE sort_values(_)
\* payment_df.sort_values('month'): the rows in ascending order of month
sort_values(df) ==
    IF df = <<>> THEN <<>>
    ELSE LET rest == sort_values(Tail(df))
             k == Cardinality({i \in DOMAIN rest : rest[i].month < Head(df).month})
         IN  SubSeq(rest, 1, k) \o <<Head(df)>> \o SubSeq(rest, k + 1, Len(rest))

\* expected_interest = current_balance * monthly_rate
ExpectedInterest(current_balance, monthly_rate) == Mul(current_balance, monthly_rate)

\* the payment that ignores the interest cap
ActualInterest_nomin(amount_paid, expected_interest) == expected_interest

\* actual_interest = min(float(amount_paid), expected_interest)
ActualInterest(amount_paid, expected_interest) == Min(amount_paid, expected_interest)

\* the subtraction in the other order
ActualPrincipal_reversed(amount_paid, actual_interest) == Sub(actual_interest, amount_paid)

\* actual_principal = amount_paid - actual_interest
ActualPrincipal(amount_paid, actual_interest) == Sub(amount_paid, actual_interest)

\* overpayment = max(0, amount_paid - emi)
Overpayment(amount_paid, emi) == Max0(Sub(amount_paid, emi))

\* one pass of the loop body: the record appended for a row
ReplayRow(row, current_balance, monthly_rate, emi) ==
    LET expected_interest == ExpectedInterest(current_balance, monthly_rate)
        actual_interest == ActualInterest(row.amount_paid, expected_interest)
        actual_principal == ActualPrincipal(row.amount_paid, actual_interest)
    IN  [month |-> row.month,
         amount_paid |-> row.amount_paid,
         expected_emi |-> emi,
         expected_interest |-> expected_interest,
         expected_principal |-> Sub(emi, expected_interest),
         actual_interest |-> actual_interest,
         actual_principal |-> actual_principal,
         overpayment |-> Overpayment(row.amount_paid, emi),
         remaining_balance |-> Max0(Sub(current_balance, actual_principal))]

RECURSIVE Replay(_, _, _, _)
\* the loop over the sorted rows: analysis_results
Replay(rows, current_balance, monthly_rate, emi) ==
    IF rows = <<>> THEN <<>>
    ELSE LET r == ReplayRow(Head(rows), current_balance, monthly_rate, emi)
         IN  <<r>> \o Replay(Tail(rows), r.remaining_balance, monthly_rate, emi)

RECURSIVE RunningTotal(_, _, _)
\* a running total after n rows: 0, then += the column, row by row
RunningTotal(results, column, n) ==
    IF n = 0 THEN Zero
    ELSE Add(RunningTotal(results, column, n - 1), results[n][column])

\* the largest month of the table, None for an empty one
LastMonth(df) ==
    IF df = <<>> THEN None
    ELSE CHOOSE m \in {df[i].month : i \in DOMAIN df} : \A i \in DOMAIN df : df[i].month <= m

\* F(v), with v evaluated once: a local variable after its assignment
With(v, F(_)) == CHOOSE result \in {F(w) : w \in {v}} : TRUE

RECURSIVE Squarings(_, _)
\* <<y, y^2, y^4, ...>> up to the first of them that is >= x, for y > 1
Squarings(powers, x) ==
    With(powers[Len(powers)], LAMBDA last :
        IF Leq(x, last) THEN powers
        ELSE With(Append(powers, Mul(last, last)), LAMBDA longer : Squarings(longer, x)))

RECURSIVE LargestBelow(_, _, _, _, _)
\* the largest n with y^n < x, put together from the powers 2^(k-1), ...,
\* 1 that keep acc = y^n below x
LargestBelow(powers, x, k, acc, n) ==
    IF k = 0 THEN n
    ELSE With(Mul(acc, powers[k]), LAMBDA larger :
            IF Less(larger, x)
            THEN LargestBelow(powers, x, k - 1, larger, n + Pow2(k - 1))
            ELSE LargestBelow(powers, x, k - 1, acc, n))

\* np.ceil(np.log(x) / np.log(y)) for x >= 1 and y > 1: the least n >= 0 with
\* y^n >= x (the rounding of the two logarithms is not modelled)
LogRatioCeil(x, y) ==
    IF Leq(x, One) THEN 0
    ELSE With(Squarings(<<y>>, x), LAMBDA powers :
            LargestBelow(powers, x, Len(powers), One, 0) + 1)

\* 1 + (current_balance * monthly_rate) / emi, line 378
PayoffRatio(current_balance, monthly_rate, emi) ==
    With(Mul(current_balance, monthly_rate), LAMBDA interest :
    With(Div(interest, emi), LAMBDA share :
        Add(One, share)))

\* remaining_months, lines 376-382, for emi > 0
RemainingMonths(current_balance, monthly_rate, emi) ==
    IF Less(Zero, current_balance)
    THEN IF Less(Zero, monthly_rate)
         THEN With(Add(One, monthly_rate), LAMBDA growth :
              With(PayoffRatio(current_balance, monthly_rate, emi), LAMBDA ratio :
                  IF Less(One, growth)
                  THEN With(LogRatioCeil(ratio, growth), LAMBDA months :
                           IF months > 0 THEN FromInt(months) ELSE Zero)
                  ELSE NaN))
         ELSE With(Div(current_balance, emi), LAMBDA months : Max0(months))
    ELSE Zero

\* estimated_interest_savings, lines 384-387, for emi > 0
EstimatedInterestSavings(loan_amount, current_balance, monthly_rate, emi, total_interest_paid, remaining_months) ==
    IF remaining_months = NaN THEN NaN
    ELSE With(IF Less(Zero, current_balance)
              THEN Mul(current_balance, monthly_rate) ELSE Zero,
              LAMBDA expected_interest_final :
         With(Div(loan_amount, emi), LAMBDA periods :
         With(Pow(Add(One, monthly_rate), Ceil(periods)), LAMBDA growth :
         With(Mul(periods, growth), LAMBDA grown :
         With(Mul(emi, grown), LAMBDA repaid :
         With(Sub(repaid, loan_amount), LAMBDA original_total_interest :
         With(Sub(original_total_interest, total_interest_paid), LAMBDA unpaid :
         With(Mul(remaining_months, expected_interest_final), LAMBDA still_due :
             Sub(unpaid, still_due)))))))))

\* (total_principal_paid / loan_amount) * 100, line 402; with rows replayed
\* the total is a numpy float and a loan_amount of 0 gives nan or inf
CompletionPercentage(total_principal_paid, loan_amount) ==
    IF loan_amount = Zero THEN NaN
    ELSE With(Div(total_principal_paid, loan_amount), LAMBDA share :
             Mul(share, FromInt(100)))

\* avg_overpayment, line 433
AverageOverpayment(total_overpayment, months_completed) ==
    IF months_completed > 0
    THEN Div(total_overpayment, FromInt(months_completed)) ELSE Zero

\* the tiers taken by the months left instead of the balance
BalanceTier_by_months(remaining_balance, remaining_months, emi) ==
    IF Less(FromInt(60), remaining_months)
    THEN "Focus on consistent overpayments"
    ELSE IF Less(FromInt(24), remaining_months)
    THEN "You're in the home stretch!"
    ELSE "Final sprint!"

\* the balance tier, lines 446-451
BalanceTier(remaining_balance, remaining_months, emi) ==
    IF Less(Mul(emi, FromInt(60)), remaining_balance)
    THEN "Focus on consistent overpayments"
    ELSE IF Less(Mul(emi, FromInt(24)), remaining_balance)
    THEN "You're in the home stretch!"
    ELSE "Final sprint!"

\* generate_payment_recommendations: the messages by their opening words,
\* the amounts formatted into them left out
generate_payment_recommendations(remaining_balance, remaining_months, emi, total_overpayment, months_completed) ==
    IF Leq(remaining_balance, Zero)
    THEN <<"Congratulations! Your loan is fully paid off!">>
    ELSE LET avg_overpayment == AverageOverpayment(total_overpayment, months_completed)
         IN  (IF Less(Zero, avg_overpayment)
              THEN <<"Great job! You've been making overpayments">>
                   \o (IF Less(Mul(emi, FromRat(1, 10)), avg_overpayment)
                       THEN <<"Continue your current strategy">> ELSE <<>>)
              ELSE <<"Consider making small overpayments">>)
             \o <<BalanceTier(remaining_balance, remaining_months, emi)>>
             \o (IF months_completed >= 6
                 THEN <<"Try to maintain consistent monthly payments">> ELSE <<>>)

\* the report of analyze_payment_history, for emi > 0
analyze_payment_history(payment_df, loan_amount, annual_rate, emi) ==
    With(Div(Div(annual_rate, FromInt(100)), FromInt(12)), LAMBDA monthly_rate :
    With(Replay(sort_values(payment_df), loan_amount, monthly_rate, emi),
         LAMBDA analysis_results :
    With(Len(analysis_results), LAMBDA n :
    With(IF n = 0 THEN loan_amount ELSE analysis_results[n].remaining_balance,
         LAMBDA current_balance :
    With(RunningTotal(analysis_results, "actual_interest", n), LAMBDA total_interest_paid :
    With(RunningTotal(analysis_results, "actual_principal", n), LAMBDA total_principal_paid :
    With(RunningTotal(analysis_results, "overpayment", n), LAMBDA total_overpayment :
    With(RemainingMonths(current_balance, monthly_rate, emi), LAMBDA remaining_months :
        [payment_summary |->
            [total_paid |-> RunningTotal(analysis_results, "amount_paid", n),
             total_interest_paid |-> total_interest_paid,
             total_principal_paid |-> total_principal_paid,
             total_overpayment |-> total_overpayment,
             months_completed |-> n,
             last_payment_month |-> LastMonth(payment_df)],
         loan_status |->
            [remaining_balance |-> current_balance,
             remaining_months |-> remaining_months,
             estimated_interest_savings |->
                EstimatedInterestSavings(loan_amount, current_balance, monthly_rate, emi,
                                         total_interest_paid, remaining_months),
             loan_completion_percentage |->
                CompletionPercentage(total_principal_paid, loan_amount)],
         monthly_breakdown |-> analysis_results,
         recommendations |->
            generate_payment_recommendations(current_balance, remaining_months, emi,
                                             total_overpayment, n)]))))))))

\* analyze_payment_history raises ZeroDivisionError: loan_amount / emi with
\* emi = 0, or 0 / loan_amount with no row replayed and loan_amount = 0
Raises(payment_df, loan_amount, emi) ==
    emi = Zero \/ (loan_amount = Zero /\ payment_df = <<>>)

\* the emi of a calculator of no loan or of a loan of the sidebar
AnalysisEmis == {LoanCalculator(la, ar, ty).emi :
                    la \in {Zero} \cup SidebarLoanAmounts, ar \in AnnualRates, ty \in TenureYears}

\* what analyze_payment_history returns, tabulated over the calls that are
\* made: a validated history (with lump sums or without), no loan or a loan of
\* the sidebar, a rate of the sidebar, the emi of a calculator
Reports ==
    <<>> @@ [call \in {c \in (PaymentFrames \cup LumpSumTables) \X ({Zero} \cup SidebarLoanAmounts)
                                \X SidebarRates \X (AnalysisEmis \ {Zero}) :
                         validate_payment_data(DataFrame(RequiredColumns, c[1])) = <<>>}
                |-> analyze_payment_history(call[1], call[2], call[3], call[4])]

\* the report of a call: looked up where it is tabulated, computed otherwise
Report(df, la, ar, emi) ==
    IF <<df, la, ar, emi>> \in DOMAIN Reports
    THEN Reports[<<df, la, ar, emi>>]
    ELSE analyze_payment_history(df, la, ar, emi)

\* a direct call of analyze_payment_history
AnalyzeCall(df, la, ar, emi) ==
    /\ pc = "ready"
    /\ last_call' = <<"analyze_payment_history", df, la, ar, emi>>
    /\ last_result' = IF Raises(df, la, emi)
                      THEN <<"raised", "ZeroDivisionError">>
                      ELSE <<"returned", Report(df, la, ar, emi)>>
    /\ UNCHANGED <<calculator, pc, locals, returned, session, messages>>

\* validation letting every table through
ValidationBlocks_never(validation_errors) == FALSE

\* if validation_errors, line 500
ValidationBlocks(validation_errors) == validation_errors # <<>>

\* the Analyze Payment History button, with the loan terms of the sidebar;
\* analysis_df always has both columns
Analyze(df, la, ar) ==
    /\ pc = "ready"
    /\ LET validation_errors == validate_payment_data(DataFrame(RequiredColumns, df))
       IN  IF ValidationBlocks(validation_errors)
           THEN /\ messages' = <<"Data validation failed:">> \o validation_errors
                /\ UNCHANGED <<session, last_call, last_result>>
           ELSE IF Raises(df, la, calculator.emi)
           THEN /\ last_call' = <<"analyze_payment_history", df, la, ar, calculator.emi>>
                /\ last_result' = <<"raised", "ZeroDivisionError">>
                /\ messages' = <<"Error during analysis: division by zero">>
                /\ UNCHANGED session
           ELSE /\ last_call' = <<"analyze_payment_history", df, la, ar, calculator.emi>>
                /\ last_result' =
                      <<"returned", Report(df, la, ar, calculator.emi)>>
                /\ payment_analysis' = <<last_result'[2]>>
                /\ payment_data' = <<df>>
                /\ analysis_inputs' = <<[loan_amount |-> la, annual_rate |-> ar,
                                         emi |-> calculator.emi]>>
                /\ messages' = <<"Payment history analyzed successfully!">>
    /\ UNCHANGED <<calculator, pc, locals, returned>>

\* --------------------------------------------- the methods that read the loan
RECURSIVE SumOf(_, _, _)
\* sum(month[column] for month in schedule): added from the left, each
\* addition rounded
SumOf(sched, column, n) ==
    IF n = 0 THEN Zero
    ELSE Add(SumOf(sched, column, n - 1), sched[n][column])

\* LoanCalculator.calculate_total_interest
calculate_total_interest(sched) == SumOf(sched, "Interest Paid", Len(sched))

\* LoanCalculator.calculate_total_payments
calculate_total_payments(sched) == SumOf(sched, "Total Payment", Len(sched))

RECURSIVE TotalPrepayments(_, _)
\* sum(month['Monthly Prepayment'] + month['Quarterly Prepayment'] ...)
TotalPrepayments(sched, n) ==
    IF n = 0 THEN Zero
    ELSE Add(TotalPrepayments(sched, n - 1),
             Add(sched[n]["Monthly Prepayment"], sched[n]["Quarterly Prepayment"]))

\* LoanCalculator.calculate_interest_savings
calculate_interest_savings(schedule_with_prepayments, schedule_without_prepayments) ==
    LET interest_with_prepay == calculate_total_interest(schedule_with_prepayments)
        interest_without_prepay == calculate_total_interest(schedule_without_prepayments)
        months_with_prepay == Len(schedule_with_prepayments)
        months_without_prepay == Len(schedule_without_prepayments)
    IN  [interest_savings |-> Sub(interest_without_prepay, interest_with_prepay),
         time_savings_months |-> months_without_prepay - months_with_prepay,
         time_savings_years |-> FromRat(months_without_prepay - months_with_prepay, 12),
         total_prepayments |->
             TotalPrepayments(schedule_with_prepayments, months_with_prepay)]

\* LoanCalculator.get_loan_summary
get_loan_summary(self) ==
    [loan_amount |-> self.loan_amount,
     annual_rate |-> self.annual_rate,
     tenure_years |-> self.tenure_years,
     tenure_months |-> self.tenure_months,
     monthly_rate |-> self.monthly_rate,
     emi |-> self.emi]

\* a method that assigns an attribute of self
SelfAfter_reassigned(self) == [self EXCEPT !.emi = Zero]

\* self after a method that reads its attributes: none of the five assigns one
SelfAfter(self) == self

\* a call of one of the reading methods, on schedules returned earlier
MethodCall(name, args, result) ==
    /\ pc = "ready"
    /\ last_call' = <<name, args>>
    /\ last_result' = <<"returned", result>>
    /\ calculator' = SelfAfter(calculator)
    /\ UNCHANGED <<pc, locals, returned, session, messages>>

TotalInterest(i) ==
    /\ i \in DOMAIN returned
    /\ MethodCall("calculate_total_interest", <<i>>,
                  calculate_total_interest(returned[i].schedule))

TotalPayments(i) ==
    /\ i \in DOMAIN returned
    /\ MethodCall("calculate_total_payments", <<i>>,
                  calculate_total_payments(returned[i].schedule))

InterestSavings(i, j) ==
    /\ i \in DOMAIN returned /\ j \in DOMAIN returned
    /\ MethodCall("calculate_interest_savings", <<i, j>>,
                  calculate_interest_savings(returned[i].schedule, returned[j].schedule))

LoanSummary == MethodCall("get_loan_summary", <<>>, get_loan_summary(calculator))

ValidateInputs == MethodCall("validate_inputs", <<>>, validate_inputs(calculator))

Next ==
    \/ \E la \in LoanAmounts, ar \in AnnualRates, ty \in TenureYears : Construct(la, ar, ty)
    \/ \E mp \in MonthlyPrepayments, qp \in QuarterlyPrepayments, mm \in Horizons(calculator) :
          Call(mp, qp, mm)
    \/ LoopStep
    \/ Return

Spec == Init /\ [][Next]_vars

\* the payment-history page: the Calculate button makes a calculator from the
\* sidebar, and histories are analyzed
NextReconcile ==
    \/ \E la \in SidebarLoanAmounts, ar \in SidebarRates, ty \in TenureYears :
          Construct(la, ar, ty)
    \/ \E df \in PaymentFrames, la \in SidebarLoanAmounts, ar \in SidebarRates :
          Analyze(df, la, ar)

\* the session of the page: its calculator was made from the sidebar
InitPage ==
    /\ Init
    /\ calculator.loan_amount \in SidebarLoanAmounts
    /\ calculator.annual_rate \in SidebarRates

SpecReconcile == InitPage /\ [][NextReconcile]_vars

\* the payment histories that pass validation
ValidatedFrames ==
    {df \in PaymentFrames : validate_payment_data(DataFrame(RequiredColumns, df)) = <<>>}

\* analyze_payment_history under direct calls on validated histories: any
\* loan amount, the emi of any calculator, 0 among them
NextAnalyze ==
    \E df \in ValidatedFrames, la \in {Zero} \cup SidebarLoanAmounts, ar \in SidebarRates :
        AnalyzeCall(df, la, ar, calculator.emi)

\* the calculators whose emi is passed: of no loan or of a loan of the sidebar
InitAnalyze ==
    /\ Init
    /\ calculator.loan_amount \in {Zero} \cup SidebarLoanAmounts

SpecAnalyze == InitAnalyze /\ [][NextAnalyze]_vars

\* the histories with lump sums that pass validation
LumpSumFrames ==
    {df \in LumpSumTables : validate_payment_data(DataFrame(RequiredColumns, df)) = <<>>}

\* analyze_payment_history under direct calls on histories with lump sums, for
\* a loan of the sidebar and the emi of a calculator made from the sidebar
NextLumpSum ==
    \E df \in LumpSumFrames, la \in SidebarLoanAmounts, ar \in SidebarRates :
        AnalyzeCall(df, la, ar, calculator.emi)

SpecLumpSum == InitPage /\ [][NextLumpSum]_vars

\* a direct call of generate_payment_recommendations
RecommendCall(remaining_balance, remaining_months, emi, total_overpayment, months_completed) ==
    /\ pc = "ready"
    /\ last_call' = <<"generate_payment_recommendations", remaining_balance,
                      remaining_months, emi, total_overpayment, months_completed>>
    /\ last_result' = <<"returned",
                        generate_payment_recommendations(remaining_balance, remaining_months,
                                                         emi, total_overpayment,
                                                         months_completed)>>
    /\ UNCHANGED <<calculator, pc, locals, returned, session, messages>>

\* the arguments of the direct calls
RemainingBalances ==
    {FromInt(-1), Zero, One} \cup {FromInt(50 * k - 1) : k \in 1..MaxBalanceSteps}
OverpaymentTotals == {Zero, FromRat(1, 10), One}
MonthsCompleted == {0, 1, MaxMonthsCompleted}

\* generate_payment_recommendations under direct calls, with the emi of a
\* calculator
NextRecommend ==
    \E rb \in RemainingBalances, rm \in {Zero, FromInt(MaxPeriods)},
       ov \in OverpaymentTotals, mc \in MonthsCompleted :
        RecommendCall(rb, rm, calculator.emi, ov, mc)

SpecRecommend == InitAnalyze /\ [][NextRecommend]_vars

\* one instance, made from the sidebar, under every method of LoanCalculator;
\* schedules are made as the Calculate button makes them: with and without a
\* monthly prepayment, for the default horizon
NextMethods ==
    \/ \E la \in SidebarLoanAmounts, ar \in SidebarRates, ty \in TenureYears :
          Construct(la, ar, ty)
    \/ \E mp \in MonthlyPrepayments : Call(mp, Zero, None)
    \/ LoopStep
    \/ Return
    \/ \E i \in 1..2 : TotalInterest(i)
    \/ \E i \in 1..2 : TotalPayments(i)
    \/ \E i, j \in 1..2 : InterestSavings(i, j)
    \/ LoanSummary
    \/ ValidateInputs

SpecMethods == InitPage /\ [][NextMethods]_vars

\* schedules of a loan of the sidebar for the default horizon, under
\* prepayment policies that fit into the loan and policies that do not
NextPolicies ==
    \/ \E la \in SidebarLoanAmounts, ar \in SidebarRates, ty \in TenureYears :
          Construct(la, ar, ty)
    \/ \E mp \in MonthlyPrepayments,
          qp \in SmallQuarterlyPrepayments \cup QuarterlyPrepayments : Call(mp, qp, None)
    \/ LoopStep
    \/ Return

SpecPolicies == InitPage /\ [][NextPolicies]_vars

\* validate_payment_data under direct calls
NextValidate == \E df \in Tables : ValidateCall(df)

SpecValidate == Init /\ [][NextValidate]_vars

\* ------------------------------------------------- properties of simulate
Valid(c) == validate_inputs(c) = <<>>

\* the schedules there are: the one being built and the returned ones
Schedules == {schedule} \cup {returned[i].schedule : i \in 1..Len(returned)}

MoneyFields == {"Interest Paid", "Principal Paid", "Monthly Prepayment",
                "Quarterly Prepayment", "Total Payment", "Outstanding Balance"}

\* a float holding a whole number of hundredths, as that number
Cents(x) ==
    IF x.m = 0 THEN 0
    ELSE IF x.e >= 0 THEN x.m * Pow2(x.e) * 100
    ELSE Sgn(x.m) * RoundHalfEven(Abs(x.m) * 100, Pow2(-x.e))


Bal(s, i) == s[i]["Outstanding Balance"]

\* the last iteration took the principal clamp / the prepayment clamp
PrincipalClampFired ==
    /\ pc = "loop" /\ month >= 1
    /\ PrincipalClamped(PrincipalComponent(calculator.emi,
                            Mul(opening_balance, calculator.monthly_rate)),
                        opening_balance)
PrepaymentClampFired ==
    /\ pc = "loop" /\ month >= 1
    /\ PrepaymentClamped(Add(monthly_prepayment, QuarterlyDue(month, quarterly_prepayment)),
                         opening_balance, monthly_principal)

\* C1: with valid loan terms and max_months at least the tenure (or left to
\* default to it), a returned schedule has at most tenure_months records.
C1_WithinTenure ==
    Valid(calculator) =>
        \A i \in 1..Len(returned) :
            (returned[i].max_months = None
                \/ returned[i].max_months >= calculator.tenure_months)
            => Len(returned[i].schedule) <= calculator.tenure_months

\* C2: with valid loan terms, a schedule returned for an explicit max_months
\* (0 included) has at most max_months records.
C2_WithinHorizon ==
    Valid(calculator) =>
        \A i \in 1..Len(returned) :
            returned[i].max_months # None
            => Len(returned[i].schedule) <= returned[i].max_months

\* C3: of two calls on the same instance with the same max_months, the one
\* whose monthly and quarterly prepayments are both at least the other's
\* returns a schedule that is not longer.
C3_Monotone ==
    Valid(calculator) =>
        \A i, j \in 1..Len(returned) :
            (/\ returned[i].max_months = returned[j].max_months
             /\ Leq(returned[i].monthly_prepayment, returned[j].monthly_prepayment)
             /\ Leq(returned[i].quarterly_prepayment, returned[j].quarterly_prepayment))
            => Len(returned[j].schedule) <= Len(returned[i].schedule)

\* C4: with valid loan terms every money field of every record, of the
\* schedule being built and of the returned ones, is >= 0.
C4_NonNegative ==
    Valid(calculator) =>
        \A s \in Schedules : \A i \in 1..Len(s) : \A f \in MoneyFields :
            Leq(Zero, s[i][f])

\* a record was emitted in a period where both clamps fired
C4_Witness ==
    /\ Valid(calculator)
    /\ PrincipalClampFired
    /\ PrepaymentClampFired
    /\ Less(Zero, monthly_prepayment)
    /\ Len(schedule) = month

\* C5 as stated: the recorded balance never increases along a schedule and
\* the first record's balance is <= the principal.
C5_NonIncreasing_Original ==
    Valid(calculator) =>
        \A s \in Schedules : \A i \in 1..Len(s) :
            Leq(Bal(s, i), IF i = 1 THEN calculator.loan_amount ELSE Bal(s, i - 1))

\* C5 amended: the recorded balance never increases along a schedule and the
\* first record's balance is <= the principal rounded to 2 decimals.
C5_NonIncreasing ==
    Valid(calculator) =>
        \A s \in Schedules : \A i \in 1..Len(s) :
            Leq(Bal(s, i),
                IF i = 1 THEN Round2(calculator.loan_amount) ELSE Bal(s, i - 1))

\* a first record whose rounded balance is above the unrounded principal
C5_Witness ==
    /\ Valid(calculator)
    /\ Len(schedule) >= 2
    /\ Less(calculator.loan_amount, Bal(schedule, 1))

\* C6 as stated: in hundredths, each record's balance is the previous
\* record's balance (the principal for period 1) minus the record's principal
\* and prepayments, clamped at 0.
C6_Recurrence_Original ==
    Valid(calculator) =>
        \A s \in Schedules : \A i \in 1..Len(s) :
            LET prev == IF i = 1 THEN calculator.loan_amount ELSE Bal(s, i - 1)
                d == Cents(prev) - Cents(s[i]["Principal Paid"])
                        - Cents(s[i]["Monthly Prepayment"])
                        - Cents(s[i]["Quarterly Prepayment"])
            IN  Cents(Bal(s, i)) = IF d > 0 THEN d ELSE 0

\* C6 amended: the recurrence holds of the unrounded values of a period, with
\* the prepayments as applied after the clamp; the record holds each of them
\* rounded to 2 decimals.
C6_Recurrence ==
    (pc = "loop" /\ month >= 1) =>
        /\ outstanding_balance =
              Max0(Sub(opening_balance,
                       Add(monthly_principal,
                           Add(current_monthly_prepayment, current_quarterly_prepayment))))
        /\ Len(schedule) = month
        /\ schedule[month] =
              PeriodRecord(month, monthly_interest, monthly_principal,
                           current_monthly_prepayment, current_quarterly_prepayment,
                           total_monthly_payment, outstanding_balance)

\* the prepayment clamp fired in a month where both prepayments were due
C6_Witness ==
    /\ PrepaymentClampFired
    /\ month % 3 = 0
    /\ Less(Zero, monthly_prepayment)
    /\ Less(Zero, quarterly_prepayment)
    /\ current_quarterly_prepayment = Zero
    /\ Less(Zero, current_monthly_prepayment)

\* C7 as stated: in a returned schedule every record but the last has a
\* recorded balance > 0, the months are 1, 2, ..., and a loan amount <= 0
\* gives the empty schedule.
C7_StopsAtZero_Original ==
    \A i \in 1..Len(returned) :
        LET s == returned[i].schedule
        IN  /\ \A k \in 1..Len(s) : k < Len(s) => Less(Zero, Bal(s, k))
            /\ \A k \in 1..Len(s) : s[k]["Month"] = k
            /\ Leq(calculator.loan_amount, Zero) => s = <<>>

\* C7 amended: a record is emitted only while the unrounded balance is > 0,
\* so the loop stops in the period the unrounded balance reaches 0; the months
\* are 1, 2, ..., and a loan amount <= 0 gives the empty schedule.
C7_StopsAtZero ==
    /\ (pc = "loop" /\ Len(schedule) >= 1) => Less(Zero, opening_balance)
    /\ \A s \in Schedules : \A k \in 1..Len(s) : s[k]["Month"] = k
    /\ Leq(calculator.loan_amount, Zero) => \A s \in Schedules : s = <<>>

\* a record is emitted after one whose recorded balance is already 0.00
C7_Witness ==
    /\ pc = "loop"
    /\ Len(schedule) >= 2
    /\ Bal(schedule, Len(schedule) - 1) = Zero
    /\ Less(Zero, opening_balance)

\* C8: with valid loan terms, no prepayment and max_months = tenure_months,
\* the schedule has tenure_months records give or take one and its last
\* recorded balance is at most 0.01.
C8_PaysOff ==
    Valid(calculator) =>
        \A i \in 1..Len(returned) :
            (/\ returned[i].monthly_prepayment = Zero
             /\ returned[i].quarterly_prepayment = Zero
             /\ returned[i].max_months = calculator.tenure_months)
            => LET s == returned[i].schedule
               IN  /\ Len(s) >= calculator.tenure_months - 1
                   /\ Len(s) <= calculator.tenure_months + 1
                   /\ Len(s) >= 1
                   /\ Leq(Bal(s, Len(s)), FromRat(1, 100))

\* ------------------------------------------------ properties of reconcile
\* the records of the stored report
Breakdown == IF payment_analysis = <<>> THEN <<>> ELSE payment_analysis[1].monthly_breakdown

\* the balance a record of the stored report was computed from
BalanceBefore(i) ==
    IF i = 1 THEN analysis_inputs[1].loan_amount ELSE Breakdown[i - 1].remaining_balance

\* the monthly rate the stored report was computed with
ReplayRate == Div(Div(analysis_inputs[1].annual_rate, FromInt(100)), FromInt(12))

FAbs(x) == [m |-> Abs(x.m), e |-> x.e]

\* one unit in the last place of the float x
Ulp(x) == IF x = Zero THEN Zero ELSE Round(1, x.e)

\* C9 as stated: in every record of a report, actual_interest + actual_principal
\* is exactly amount_paid
C9_Conservation_Original ==
    \A i \in DOMAIN Breakdown :
        Add(Breakdown[i].actual_interest, Breakdown[i].actual_principal)
            = Breakdown[i].amount_paid

\* C9, amended: in every record of a report made from a validated history and
\* a non-negative loan amount and rate, actual_interest + actual_principal is
\* within one unit in the last place of amount_paid, and is exactly
\* amount_paid when the payment does not exceed the expected interest
C9_Conservation ==
    \A i \in DOMAIN Breakdown :
        LET r == Breakdown[i]
            sum == Add(r.actual_interest, r.actual_principal)
        IN  /\ Leq(FAbs(Sub(sum, r.amount_paid)), Ulp(r.amount_paid))
            /\ Leq(r.amount_paid, r.expected_interest) => sum = r.amount_paid

\* a payment above the expected interest was split into an interest part and
\* a positive principal part whose float sum is not the payment
C9_Witness ==
    \E i \in DOMAIN Breakdown :
        /\ Less(Zero, Breakdown[i].actual_interest)
        /\ Less(Zero, Breakdown[i].actual_principal)
        /\ Add(Breakdown[i].actual_interest, Breakdown[i].actual_principal)
              # Breakdown[i].amount_paid

\* C10: every replayed payment goes to interest first: expected_interest is
\* balance * monthly_rate, actual_interest is the smaller of amount_paid and
\* expected_interest, and a payment below the expected interest has
\* actual_principal = 0, actual_interest = amount_paid and leaves the balance
\* as it was
C10_InterestFirst ==
    \A i \in DOMAIN Breakdown :
        LET r == Breakdown[i]
        IN  /\ r.expected_interest = Mul(BalanceBefore(i), ReplayRate)
            /\ Leq(r.actual_interest, r.amount_paid)
            /\ Leq(r.actual_interest, r.expected_interest)
            /\ r.actual_interest \in {r.amount_paid, r.expected_interest}
            /\ Less(r.amount_paid, r.expected_interest) =>
                  /\ r.actual_principal = Zero
                  /\ r.actual_interest = r.amount_paid
                  /\ r.remaining_balance = BalanceBefore(i)

\* a positive payment below the expected interest was replayed after an
\* earlier payment
C10_Witness ==
    \E i \in DOMAIN Breakdown :
        /\ i > 1
        /\ Less(Zero, Breakdown[i].amount_paid)
        /\ Less(Breakdown[i].amount_paid, Breakdown[i].expected_interest)

\* ------------------------------------------------- properties of validate
\* the table and the errors of the last direct call of validate_payment_data
Validated == last_call # <<>> /\ last_call[1] = "validate_payment_data"
ValidatedTable == last_call[2]
ValidationErrors == last_result[2]

\* C11: a table that validate_payment_data lets through (no error) has, in
\* every row, a present amount_paid >= 0 and a present month that is
\* positive and differs from the month of every other row
C11_DataModel ==
    Validated /\ ValidationErrors = <<>> =>
        LET rows == ValidatedTable.rows
        IN  \A i \in DOMAIN rows :
                /\ Present(rows[i], "amount_paid")
                /\ Leq(Zero, rows[i].amount_paid)
                /\ Present(rows[i], "month")
                /\ rows[i].month > 0
                /\ \A j \in DOMAIN rows : j # i => rows[j].month # rows[i].month

\* C12: validate_payment_data on a table that lacks a required column returns
\* exactly one error, the one naming the missing columns, whatever the rows
\* hold; on a table with both columns and two rows of the same month its
\* errors include the duplicate-months error
C12_ColumnCheckFirst ==
    Validated =>
        LET missing == RequiredColumns \ ValidatedTable.columns
            rows == ValidatedTable.rows
        IN  /\ missing # {} => ValidationErrors = <<MissingColumnsError(missing)>>
            /\ (/\ missing = {}
                /\ \E i, j \in DOMAIN rows :
                      /\ i # j
                      /\ Present(rows[i], "month") /\ Present(rows[j], "month")
                      /\ rows[i].month = rows[j].month)
               => \E k \in DOMAIN ValidationErrors :
                      ValidationErrors[k] = "Duplicate months found in the data"

\* validate_payment_data was called on a table without the month column that
\* holds a negative amount and a missing one
C12_Witness ==
    /\ Validated
    /\ ValidatedTable.columns = {"amount_paid"}
    /\ \E i \in DOMAIN ValidatedTable.rows :
          /\ Present(ValidatedTable.rows[i], "amount_paid")
          /\ Less(ValidatedTable.rows[i].amount_paid, Zero)
    /\ \E i \in DOMAIN ValidatedTable.rows : ~Present(ValidatedTable.rows[i], "amount_paid")

\* ------------------------------------------------------ properties of the page
\* the last Analyze click was refused by validation
ValidationFailed == messages # <<>> /\ messages[1] = "Data validation failed:"

\* C13: on the page analyze_payment_history is invoked only on a history for
\* which validate_payment_data returned no error; the stored report and
\* payment data change only to those of such a history, the report being the
\* one analyze_payment_history makes of it; a click refused by validation
\* invokes nothing and leaves both as they were
C13_Gate ==
    [][/\ ValidationFailed' /\ messages' # messages =>
            UNCHANGED <<payment_analysis, payment_data, last_call, last_result>>
       /\ last_call' # last_call =>
            /\ last_call'[1] = "analyze_payment_history"
            /\ validate_payment_data(DataFrame(RequiredColumns, last_call'[2])) = <<>>
       /\ <<payment_analysis, payment_data>>' # <<payment_analysis, payment_data>> =>
            /\ validate_payment_data(DataFrame(RequiredColumns, payment_data'[1])) = <<>>
            /\ payment_analysis' =
                  <<analyze_payment_history(payment_data'[1],
                                            analysis_inputs'[1].loan_amount,
                                            analysis_inputs'[1].annual_rate,
                                            analysis_inputs'[1].emi)>>]_vars

\* a click was refused by validation while a report of an earlier history is stored
C13_Witness == ValidationFailed /\ payment_analysis # <<>>

\* ------------------------------------ properties of reconcile under direct calls
\* C14: analyze_payment_history called with emi = 0 on a validated history
\* returns a report: it raises nothing
C14_NoFault ==
    (/\ last_call # <<>>
     /\ last_call[1] = "analyze_payment_history"
     /\ last_call[5] = Zero)
    => last_result[1] = "returned"

\* ------------------------------------------- properties of the loan's methods
\* C15: emi is computed at construction and no call of
\* generate_amortization_schedule, calculate_total_interest,
\* calculate_total_payments, calculate_interest_savings, get_loan_summary or
\* validate_inputs changes an attribute of the instance: the attributes change
\* only in a step that runs none of them and makes a new instance, whose emi is
\* the one _calculate_emi gives for its terms; every period of a schedule takes
\* its principal from that emi
C15_Immutable ==
    [][/\ calculator' # calculator =>
            /\ UNCHANGED <<pc, locals, outputs>>
            /\ calculator' = LoanCalculator(calculator'.loan_amount,
                                            calculator'.annual_rate,
                                            calculator'.tenure_years)
       /\ month' = month + 1 =>
            LET emi == _calculate_emi(calculator.loan_amount, calculator.monthly_rate,
                                      calculator.tenure_months)
                principal == PrincipalComponent(emi,
                                 Mul(opening_balance', calculator.monthly_rate))
            IN  /\ calculator' = calculator
                /\ monthly_principal' = IF PrincipalClamped(principal, opening_balance')
                                        THEN opening_balance' ELSE principal]_vars

\* a third schedule is being made after calculate_interest_savings compared
\* two different schedules of the instance
C15_Witness ==
    /\ last_call # <<>>
    /\ last_call[1] = "calculate_interest_savings"
    /\ last_call[2] = <<1, 2>>
    /\ pc = "loop" /\ month >= 2
    /\ Len(returned) = 1
    /\ Len(returned[1].schedule) > Len(schedule)
    /\ Less(Zero, calculator.emi)

\* ------------------------------------------------ properties of the engine (2)
\* the arguments of a call of generate_amortization_schedule
SameArguments(r, mp, qp, mm) ==
    r.monthly_prepayment = mp /\ r.quarterly_prepayment = qp /\ r.max_months = mm

C17_ZeroRateEmi ==
    calculator.monthly_rate = Zero /\ calculator.tenure_months >= 1
    => calculator.emi = Div(calculator.loan_amount, FromInt(calculator.tenure_months))

\* an instance with rate 0 whose loan does not divide evenly by its months:
\* its emi is the rounded quotient, and emi * tenure_months, taken without
\* rounding, is not the loan
C17_Witness ==
    /\ calculator.annual_rate = Zero
    /\ calculator.monthly_rate = Zero
    /\ Less(Zero, calculator.loan_amount)
    /\ Less(Zero, calculator.emi)
    /\ LET emi == calculator.emi
           loan == calculator.loan_amount
           k == Abs(emi.e) + Abs(loan.e)
       IN  emi.m * calculator.tenure_months * Pow2(emi.e + k) # loan.m * Pow2(loan.e + k)

\* the record of the last iteration
LastRecord == schedule[Len(schedule)]

\* C18: in a period whose monthly prepayment plus the quarterly prepayment
\* due exceeds the room (opening balance minus the principal component) the
\* applied total is max(0, room), all of it is the monthly prepayment applied
\* and the quarterly prepayment applied is 0; in every other period the
\* applied amounts are the amounts of the policy for that period; the record
\* holds the applied amounts rounded to 2 places
C18_ClampTieBreak ==
    pc = "loop" /\ month >= 1 =>
        LET room == Sub(opening_balance, monthly_principal)
            due == IF month % 3 = 0 THEN quarterly_prepayment ELSE Zero
            policy_total == Add(monthly_prepayment, due)
        IN  /\ IF Less(room, policy_total)
               THEN /\ total_prepayment = (IF Less(room, Zero) THEN Zero ELSE room)
                    /\ current_monthly_prepayment = total_prepayment
                    /\ current_quarterly_prepayment = Zero
               ELSE /\ total_prepayment = policy_total
                    /\ current_monthly_prepayment = monthly_prepayment
                    /\ current_quarterly_prepayment = due
            /\ LastRecord["Monthly Prepayment"] = Round2(current_monthly_prepayment)
            /\ LastRecord["Quarterly Prepayment"] = Round2(current_quarterly_prepayment)

\* the clamp fired in a month in which a quarterly prepayment was due and
\* room was left: the whole room went to the monthly prepayment of a policy
\* that has none
C18_Witness ==
    /\ PrepaymentClampFired
    /\ month % 3 = 0
    /\ Less(Zero, quarterly_prepayment)
    /\ monthly_prepayment = Zero
    /\ Less(Zero, Sub(opening_balance, monthly_principal))
    /\ Less(Zero, LastRecord["Monthly Prepayment"])
    /\ LastRecord["Quarterly Prepayment"] = Zero

\* C19 as stated: in every period the principal component is at most the
\* opening balance and interest + principal is exactly the emi
C19_PrincipalClamp_Original ==
    pc = "loop" /\ month >= 1 /\ Valid(calculator) =>
        /\ Leq(monthly_principal, opening_balance)
        /\ Add(monthly_interest, monthly_principal) = calculator.emi

\* C19: in every period of a loan with valid terms the principal component is
\* at most the opening balance, and interest + principal is the emi up to
\* rounding: the float sum is within one unit in the last place of the emi;
\* when the clamp fires the principal is the opening balance and the
\* interest is emi - principal
C19_PrincipalClamp ==
    pc = "loop" /\ month >= 1 /\ Valid(calculator) =>
        /\ Leq(monthly_principal, opening_balance)
        /\ Leq(FAbs(Sub(Add(monthly_interest, monthly_principal), calculator.emi)),
               Ulp(calculator.emi))
        /\ PrincipalClampFired =>
              /\ monthly_principal = opening_balance
              /\ monthly_interest = Sub(calculator.emi, monthly_principal)

\* the clamp fired on a positive balance smaller than the principal component
C19_Witness ==
    /\ PrincipalClampFired
    /\ Valid(calculator)
    /\ Less(Zero, opening_balance)
    /\ monthly_principal = opening_balance
    /\ Less(monthly_principal, calculator.emi)

\* C20: in every schedule a record with a positive quarterly prepayment has a
\* month divisible by 3, and in a month divisible by 3 in which the
\* prepayment clamp does not fire the quarterly prepayment applied is the
\* quarterly_prepayment of the call (recorded rounded to 2 places)
C20_QuarterlyMonths ==
    /\ \A s \in Schedules : \A i \in DOMAIN s :
          Less(Zero, s[i]["Quarterly Prepayment"]) => s[i]["Month"] % 3 = 0
    /\ (/\ pc = "loop" /\ month >= 1 /\ month % 3 = 0
        /\ ~Less(Sub(opening_balance, monthly_principal),
                 Add(monthly_prepayment, quarterly_prepayment)))
       => /\ current_quarterly_prepayment = quarterly_prepayment
          /\ LastRecord["Quarterly Prepayment"] = Round2(quarterly_prepayment)

\* a quarterly prepayment was applied whole in month 3 and in month 6, and
\* none between them
C20_Witness ==
    /\ pc = "loop" /\ month = 6
    /\ Less(Zero, quarterly_prepayment)
    /\ ~PrepaymentClampFired
    /\ LastRecord["Quarterly Prepayment"] = quarterly_prepayment
    /\ schedule[3]["Quarterly Prepayment"] = quarterly_prepayment
    /\ schedule[4]["Quarterly Prepayment"] = Zero
    /\ schedule[5]["Quarterly Prepayment"] = Zero

\* ------------------------------------------------ properties of reconcile (2)
\* the tables that hold the rows of df in some order
Reorderings(df) ==
    LET n == Len(df)
    IN  {[i \in 1..n |-> df[q[i]]] :
            q \in {f \in [1..n -> 1..n] : \A i, j \in 1..n : i # j => f[i] # f[j]}}

\* C21: the stored report of a validated history has its records in ascending
\* order of month, every reordering of the rows of the history gives the same
\* report (records, totals, remaining balance), and the table the handler
\* passed is, after the call, in the order it was passed in
C21_OrderIndependent ==
    payment_analysis # <<>> =>
        /\ \A i, j \in DOMAIN Breakdown : i < j => Breakdown[i].month < Breakdown[j].month
        /\ \A df \in Reorderings(payment_data[1]) :
              analyze_payment_history(df, analysis_inputs[1].loan_amount,
                                      analysis_inputs[1].annual_rate,
                                      analysis_inputs[1].emi) = payment_analysis[1]
        /\ payment_data[1] = last_call[2]

\* a history whose rows came in descending order of month was analyzed: the
\* report replays month 1 first, the stored table still starts with month 2
C21_Witness ==
    /\ payment_analysis # <<>>
    /\ Len(payment_data[1]) = 2
    /\ payment_data[1][1].month > payment_data[1][2].month
    /\ payment_data[1][1].amount_paid # payment_data[1][2].amount_paid
    /\ Breakdown[1].month < Breakdown[2].month
    /\ Breakdown[1].amount_paid = payment_data[1][2].amount_paid

\* ------------------------------------------------ the projection of the report
RECURSIVE AmortizationPeriods(_, _, _, _)
\* the periods that balance <- balance * (1 + monthly_rate) - emi takes to
\* bring a balance to <= 0, after n of them
AmortizationPeriods(balance, monthly_rate, emi, n) ==
    IF Leq(balance, Zero) \/ n >= MaxPeriods THEN n
    ELSE AmortizationPeriods(Sub(Mul(balance, Add(One, monthly_rate)), emi),
                             monthly_rate, emi, n + 1)

\* the last call was one of analyze_payment_history and returned a report
ReportReturned ==
    /\ last_call # <<>>
    /\ last_call[1] = "analyze_payment_history"
    /\ last_result[1] = "returned"

\* the monthly rate of the last call of analyze_payment_history
CallRate == Div(Div(last_call[4], FromInt(100)), FromInt(12))

\* C22: for a monthly rate > 0, an emi > 0 that exceeds the interest of a
\* month and a positive remaining balance after the replay, the
\* remaining_months of the report is the number of periods that
\* balance <- balance * (1 + monthly_rate) - emi takes from that balance to
\* one <= 0; it is 0 when the balance is 0 and it is never negative
C22_PayoffTime ==
    ReportReturned =>
        LET status == last_result[2].loan_status
            emi == last_call[5]
        IN  /\ (/\ Less(Zero, CallRate)
                /\ Less(Zero, status.remaining_balance)
                /\ Less(Mul(status.remaining_balance, CallRate), emi))
               => status.remaining_months =
                     FromInt(AmortizationPeriods(status.remaining_balance, CallRate, emi, 0))
            /\ status.remaining_balance = Zero => status.remaining_months = Zero
            /\ ~Less(status.remaining_months, Zero)

\* --------------------------------------------- properties of the recommendations
\* the messages on the pattern of the overpayments, as they can follow each other
OverpaymentCommentaries ==
    {<<"Great job! You've been making overpayments">>,
     <<"Great job! You've been making overpayments", "Continue your current strategy">>,
     <<"Consider making small overpayments">>}

\* the three messages on the balance
TierMessages ==
    {"Focus on consistent overpayments", "You're in the home stretch!", "Final sprint!"}

\* the returned list is commentary of k messages, the tier message for the
\* balance, then the consistency note if note = 1
Structured(list, k, note, remaining_balance, emi, months_completed) ==
    /\ Len(list) = k + 1 + note
    /\ SubSeq(list, 1, k) \in OverpaymentCommentaries
    /\ months_completed = 0 => SubSeq(list, 1, k) = <<"Consider making small overpayments">>
    /\ list[k + 1] = (IF Less(Mul(emi, FromInt(60)), remaining_balance)
                      THEN "Focus on consistent overpayments"
                      ELSE IF Less(Mul(emi, FromInt(24)), remaining_balance)
                      THEN "You're in the home stretch!"
                      ELSE "Final sprint!")
    /\ Cardinality({i \in DOMAIN list : list[i] \in TierMessages}) = 1
    /\ note = 1 => list[k + 2] = "Try to maintain consistent monthly payments"

\* the last call was one of generate_payment_recommendations
Recommended ==
    /\ last_call # <<>>
    /\ last_call[1] = "generate_payment_recommendations"

\* C23: with a remaining balance <= 0 generate_payment_recommendations
\* returns the congratulations alone; otherwise it returns the commentary on
\* the overpayments (one or two messages; the advice to start overpaying when
\* months_completed is 0), then one tier message chosen by the balance
\* against 60 and 24 times the emi, then the consistency note or nothing
C23_Structure ==
    Recommended =>
        IF Leq(last_call[2], Zero)
        THEN last_result[2] = <<"Congratulations! Your loan is fully paid off!">>
        ELSE \E k \in 1..2, note \in 0..1 :
                Structured(last_result[2], k, note, last_call[2], last_call[4], last_call[6])

\* all four kinds of message were returned: both messages on the
\* overpayments, the tier message of a balance between 24 and 60 times the
\* emi, and the consistency note of six or more completed months
C23_Witness ==
    /\ Recommended
    /\ Len(last_result[2]) = 4
    /\ last_result[2][3] = "You're in the home stretch!"
    /\ last_call[6] >= 6

\* ------------------------------------------------- properties of the savings
\* C24: for a loan with valid terms, a schedule with prepayments >= 0 and the
\* schedule without prepayments made for the same horizon, the
\* interest_savings that calculate_interest_savings returns is >= 0 (the
\* interest paid with prepayments is at most the interest paid without) and
\* so is its time_savings_months
C24_NeverCostsInterest ==
    Valid(calculator) =>
        \A i, j \in DOMAIN returned :
            (/\ returned[j].monthly_prepayment = Zero
             /\ returned[j].quarterly_prepayment = Zero
             /\ returned[i].max_months = returned[j].max_months)
            => LET savings == calculate_interest_savings(returned[i].schedule,
                                                         returned[j].schedule)
               IN  /\ Leq(Zero, savings.interest_savings)
                   /\ savings.time_savings_months >= 0

\* ------------------------------------------- properties of the page's calls
\* C25: whenever the page calls analyze_payment_history, the emi it passes is
\* the emi of the loan_amount and annual_rate passed in the same call: the
\* stored calculator is never stale against the sidebar
C25_ConsistentTerms ==
    (/\ last_call # <<>>
     /\ last_call[1] = "analyze_payment_history")
    => last_call[5] = LoanCalculator(last_call[3], last_call[4], calculator.tenure_years).emi

\* -------------------------------------- properties of the principal replayed
\* C26: after the replay of a validated history against a loan > 0 the
\* total_principal_paid of the report is the loan less the remaining balance,
\* so it is at most the loan, and loan_completion_percentage lies between 0
\* and 100
C26_PrincipalConserved ==
    (ReportReturned /\ Less(Zero, last_call[3])) =>
        /\ Leq(last_result[2].payment_summary.total_principal_paid, last_call[3])
        /\ Leq(Zero, last_result[2].loan_status.loan_completion_percentage)
        /\ Leq(last_result[2].loan_status.loan_completion_percentage, FromInt(100))

\* ----------------------------------------------- properties of what is charged
\* C27: in every period of a schedule of a loan with valid terms the interest
\* is at most the opening balance times the monthly rate, and interest plus
\* principal is at most the opening balance times (1 + monthly rate), the
\* period in which the principal clamp fires included
C27_NoOvercharge ==
    pc = "loop" /\ month >= 1 /\ Valid(calculator) =>
        /\ Leq(monthly_interest, Mul(opening_balance, calculator.monthly_rate))
        /\ Leq(Add(monthly_interest, monthly_principal),
               Mul(opening_balance, Add(One, calculator.monthly_rate)))

====
